---- MODULE Spec2Model ----
(***************************************************************************)
(* Model of pkg/data/events.go: the Event change record, its description   *)
(* (Event.Output) and its application to a cluster (Event.Apply).          *)
(*                                                                         *)
(* Texts are sequences of lines.  A line is a record [k, s]: k is the      *)
(* marker the unified-diff printer writes in front of the line ("" for a   *)
(* line written as is) and s is the rest of the line, so the line as       *)
(* printed is k \o s.  Every serialized line ends in a newline in the      *)
(* program (Output appends one to each serialization); the terminator is   *)
(* left out of s.                                                          *)
(***************************************************************************)
EXTENDS Integers, Sequences, FiniteSets, TLC

VARIABLES event, calls, applyCount, outCount, outRet, applyRet

vars == <<event, calls, applyCount, outCount, outRet, applyRet>>

(***************************************************************************)
(* Bounds of the model.                                                    *)
(***************************************************************************)
\* longest Hosts list of a service value
MaxHosts == 2
\* Apply invocations on one record
MaxApply == 2
\* Output invocations on one record
MaxOutput == 2

(***************************************************************************)
(* ResourceType, the options, and the values an Event carries.             *)
(***************************************************************************)
ServiceResourceType == "service"
RouteResourceType == "route"

CreateOption == 0
DeleteOption == 1
UpdateOption == 2

\* Event.ResourceType is a string: the two known kinds and one that is not.
ResourceTypes == {ServiceResourceType, RouteResourceType, "upstream"}

\* Event.Option is an int: the three options and two values outside them.
Options == {-1, CreateOption, DeleteOption, UpdateOption, 3}

Names == {"a", "b"}
HostNames == {"h1", "h2"}
UpstreamIDs == {"1", "2"}

\* the nil interface value
Nil == [type |-> "nil"]

HostLists == UNION {[1..n -> HostNames] : n \in 0..MaxHosts}

\* *types.Service and *types.Route
Services == [type : {"Service"}, Name : Names, Hosts : HostLists]
Routes == [type : {"Route"}, Name : Names, UpstreamID : UpstreamIDs]

Values == {Nil} \cup Services \cup Routes

\* getName: the Name field of the struct the value points to.  On nil,
\* reflect's FieldByName panics; the model marks that by "panic".
getName(value) ==
    IF value = Nil THEN [panic |-> TRUE, name |-> ""]
    ELSE [panic |-> FALSE, name |-> value.Name]

(***************************************************************************)
(* json.MarshalIndent(value, "", "\t") followed by splitLines.             *)
(***************************************************************************)
Tab == "\t"
Quote(s) == "\"" \o s \o "\""

RECURSIVE ArrayLines(_, _)
ArrayLines(hosts, i) ==
    IF i > Len(hosts) THEN <<>>
    ELSE <<Tab \o Tab \o Quote(hosts[i]) \o (IF i < Len(hosts) THEN "," ELSE "")>>
         \o ArrayLines(hosts, i + 1)

MarshalIndent(value) ==
    IF value = Nil THEN <<"null">>
    ELSE IF value.type = "Service" THEN
        <<"{", Tab \o "\"name\": " \o Quote(value.Name) \o ",">>
        \o (IF value.Hosts = <<>> THEN <<Tab \o "\"hosts\": []">>
            ELSE <<Tab \o "\"hosts\": [">> \o ArrayLines(value.Hosts, 1) \o <<Tab \o "]">>)
        \o <<"}">>
    ELSE
        <<"{", Tab \o "\"name\": " \o Quote(value.Name) \o ",",
          Tab \o "\"upstream_id\": " \o Quote(value.UpstreamID), "}">>

(***************************************************************************)
(* myers.ComputeEdits(uri, remote, local) on the two line sequences.       *)
(* Indices x, y, I1, I2, J1 are the library's (from 0); At reads a slice.  *)
(***************************************************************************)
At(a, x) == a[x + 1]

\* the diagonal moves while the contents are equal
RECURSIVE Diagonal(_, _, _, _)
Diagonal(a, b, x, y) ==
    IF x < Len(a) /\ y < Len(b) /\ At(a, x) = At(b, y)
    THEN Diagonal(a, b, x + 1, y + 1)
    ELSE x

\* go down (an insertion) rather than right (a deletion) on diagonal k
GoDown(V, d, k) == k = -d \/ (k # d /\ V[k - 1] < V[k + 1])

\* one round d of shortestEditSequence, from diagonal k on
RECURSIVE RoundK(_, _, _, _, _)
RoundK(a, b, V, d, k) ==
    IF k > d THEN [V |-> V, done |-> FALSE]
    ELSE LET x0 == IF GoDown(V, d, k) THEN V[k + 1] ELSE V[k - 1] + 1
             x == Diagonal(a, b, x0, x0 - k)
             V2 == [V EXCEPT ![k] = x]
         IN IF x = Len(a) /\ x - k = Len(b)
            THEN [V |-> V2, done |-> TRUE]
            ELSE RoundK(a, b, V2, d, k + 2)

RECURSIVE Rounds(_, _, _, _, _)
Rounds(a, b, V, d, trace) ==
    IF d > Len(a) + Len(b) THEN <<>>
    ELSE LET r == RoundK(a, b, V, d, -d)
         IN IF r.done THEN Append(trace, r.V)
            ELSE Rounds(a, b, r.V, d + 1, Append(trace, r.V))

\* the trace: V after each round d, trace[d + 1] for round d
shortestEditSequence(a, b) ==
    Rounds(a, b, [k \in -(Len(a) + Len(b))..(Len(a) + Len(b)) |-> 0], 0, <<>>)

RECURSIVE BacktrackLoop(_, _, _, _, _)
BacktrackLoop(trace, x, y, d, snakes) ==
    IF x > 0 /\ y > 0 /\ d > 0
    THEN LET V == trace[d + 1]
             k == x - y
             kPrev == IF GoDown(V, d, k) THEN k + 1 ELSE k - 1
             xPrev == V[kPrev]
         IN BacktrackLoop(trace, xPrev, xPrev - kPrev, d - 1,
                          [snakes EXCEPT ![d + 1] = <<x, y>>])
    ELSE IF x < 0 \/ y < 0 THEN snakes
    ELSE [snakes EXCEPT ![d + 1] = <<x, y>>]

\* the snakes of the solution, snakes[d + 1] the end point of round d (<<>>: none)
backtrack(trace, x, y) ==
    BacktrackLoop(trace, x, y, Len(trace) - 1, [i \in 1..Len(trace) |-> <<>>])

RECURSIVE DeleteLoop(_, _, _, _)
DeleteLoop(snake, x, y, M) ==
    IF snake[1] - snake[2] > x - y
    THEN IF x + 1 = M THEN x + 1 ELSE DeleteLoop(snake, x + 1, y, M)
    ELSE x

RECURSIVE InsertLoop(_, _, _)
InsertLoop(snake, x, y) ==
    IF snake[1] - snake[2] < x - y THEN InsertLoop(snake, x, y + 1) ELSE y

RECURSIVE OpsLoop(_, _, _, _, _, _)
OpsLoop(a, b, snakes, i, x, y) ==
    IF i > Len(snakes) THEN <<>>
    ELSE IF Len(snakes[i]) < 2 THEN OpsLoop(a, b, snakes, i + 1, x, y)
    ELSE LET snake == snakes[i]
             x1 == DeleteLoop(snake, x, y, Len(a))
             del == IF x1 # x
                    THEN <<[Kind |-> "Delete", I1 |-> x, I2 |-> x1, J1 |-> y,
                            Content |-> <<>>]>>
                    ELSE <<>>
             y1 == InsertLoop(snake, x1, y)
             ins == IF y1 # y
                    THEN <<[Kind |-> "Insert", I1 |-> x1, I2 |-> x1, J1 |-> y,
                            Content |-> SubSeq(b, y + 1, y1)]>>
                    ELSE <<>>
             x2 == IF x1 < snake[1] THEN snake[1] ELSE x1
             y2 == y1 + (x2 - x1)
         IN del \o ins \o (IF x2 >= Len(a) /\ y2 >= Len(b) THEN <<>>
                           ELSE OpsLoop(a, b, snakes, i + 1, x2, y2))

\* the operations that convert a into b, equal lines not included
operations(a, b) ==
    IF Len(a) = 0 /\ Len(b) = 0 THEN <<>>
    ELSE OpsLoop(a, b, backtrack(shortestEditSequence(a, b), Len(a), Len(b)), 1, 0, 0)

RECURSIVE EditsOf(_, _)
EditsOf(ops, i) ==
    IF i > Len(ops) THEN <<>>
    ELSE LET op == ops[i]
             s == [start |-> op.I1 + 1, end |-> op.I2 + 1]
         IN (IF op.Kind = "Delete" THEN <<[Span |-> s, NewText |-> <<>>]>>
             ELSE IF op.Content # <<>> THEN <<[Span |-> s, NewText |-> op.Content]>>
             ELSE <<>>)
            \o EditsOf(ops, i + 1)

\* the text edits: Span is in lines of `before` (from 1, end excluded), the
\* columns are all 1; NewText is kept as its lines
ComputeEdits(before, after) == EditsOf(operations(before, after), 1)

(***************************************************************************)
(* gotextdiff.ToUnified("remote", "local", remote, edits) and the text     *)
(* fmt.Sprint makes of it.                                                 *)
(***************************************************************************)
\* lines of context around a change, and the widest gap one hunk bridges
edge == 3
gap == edge * 2

\* prepareEdits: an edit is partial when it starts at or after the end of the
\* content or off the start of a line.  The columns of ComputeEdits' spans
\* are all 1, which leaves an insertion behind the last line.
Partial(lines, edits) == \E i \in 1..Len(edits) : edits[i].Span.start > Len(lines)

\* addEqualLines: the lines [start, end) that exist, as Equal lines
EqualLines(lines, start, end) ==
    LET lo == IF start < 0 THEN 0 ELSE start
        hi == IF end > Len(lines) THEN Len(lines) ELSE end
    IN [j \in 1..(hi - lo) |-> [Kind |-> "Equal", Content |-> At(lines, lo + j - 1)]]

\* no hunk open yet
NoHunk == [FromLine |-> 0, ToLine |-> 0, Lines |-> <<>>]

RECURSIVE UnifiedLoop(_, _, _, _, _, _, _)
UnifiedLoop(lines, edits, i, hunks, h, last, toLine) ==
    IF i > Len(edits)
    THEN IF h # NoHunk
         THEN Append(hunks, [h EXCEPT !.Lines = @ \o EqualLines(lines, last, last + edge)])
         ELSE hunks
    ELSE LET edit == edits[i]
             start == edit.Span.start - 1
             end == edit.Span.end - 1
             extend == h # NoHunk /\ start = last
             join == h # NoHunk /\ ~extend /\ start <= last + gap
             fresh == ~extend /\ ~join
             hunks1 == IF fresh /\ h # NoHunk
                       THEN Append(hunks, [h EXCEPT !.Lines =
                                               @ \o EqualLines(lines, last, last + edge)])
                       ELSE hunks
             toLine1 == IF fresh THEN toLine + (start - last) ELSE toLine
             before == EqualLines(lines, start - edge, start)
             h1 == IF extend THEN h
                   ELSE IF join
                   THEN [h EXCEPT !.Lines = @ \o EqualLines(lines, last, start)]
                   ELSE [FromLine |-> start + 1 - Len(before),
                         ToLine |-> toLine1 + 1 - Len(before),
                         Lines |-> before]
             deleted == [j \in 1..(end - start) |->
                            [Kind |-> "Delete", Content |-> At(lines, start + j - 1)]]
             inserted == [j \in 1..Len(edit.NewText) |->
                            [Kind |-> "Insert", Content |-> edit.NewText[j]]]
             last1 == IF end > start THEN end ELSE start
         IN UnifiedLoop(lines, edits, i + 1, hunks1,
                        [h1 EXCEPT !.Lines = @ \o deleted \o inserted],
                        last1, toLine1 + Len(edit.NewText))

\* the hunks of the unified diff of `lines` under `edits`
ToUnified(lines, edits) ==
    IF Len(edits) = 0 THEN <<>>
    ELSE UnifiedLoop(lines, edits, 1, <<>>, NoHunk, 0, 0)

Count(hunk, kinds) == Cardinality({j \in 1..Len(hunk.Lines) : hunk.Lines[j].Kind \in kinds})

Range(line, count) ==
    IF count > 1 THEN ToString(line) \o "," \o ToString(count) ELSE ToString(line)

HunkText(hunk) ==
    <<[k |-> "@@", s |-> " -" \o Range(hunk.FromLine, Count(hunk, {"Delete", "Equal"}))
                         \o " +" \o Range(hunk.ToLine, Count(hunk, {"Insert", "Equal"}))
                         \o " @@"]>>
    \o [j \in 1..Len(hunk.Lines) |->
          [k |-> CASE hunk.Lines[j].Kind = "Delete" -> "-"
                   [] hunk.Lines[j].Kind = "Insert" -> "+"
                   [] OTHER -> " ",
           s |-> hunk.Lines[j].Content]]

RECURSIVE HunksText(_, _)
HunksText(hunks, i) ==
    IF i > Len(hunks) THEN <<>> ELSE HunkText(hunks[i]) \o HunksText(hunks, i + 1)

\* Unified's text: nothing at all without hunks, else the two file lines and
\* the hunks
UnifiedText(hunks) ==
    IF Len(hunks) = 0 THEN <<>>
    ELSE <<[k |-> "---", s |-> " remote"], [k |-> "+++", s |-> " local"]>>
         \o HunksText(hunks, 1)

(***************************************************************************)
(* Errors.  A remote call returns NilErr or a client error; errors.Wrap    *)
(* keeps nil nil and otherwise puts the message in front of the cause.     *)
(***************************************************************************)
NilErr == [kind |-> "nil"]
ClientErrs == {[kind |-> "client", text |-> "connection refused"]}
RemoteResults == {NilErr} \cup ClientErrs

\* a wrap that makes an error of nil too
WrapAlways(err, message) == [kind |-> "wrapped", msg |-> message, cause |-> err]

Wrap(err, message) ==
    IF err = NilErr THEN NilErr
    ELSE [kind |-> "wrapped", msg |-> message, cause |-> err]

(***************************************************************************)
(* Event.Output: [panic, output, err].                                     *)
(***************************************************************************)
TextLine(s) == [k |-> "", s |-> s]

\* fmt.Sprintf("<verb> %s: \"%s\"", e.ResourceType, name)
Headline(verb, e, name) == TextLine(verb \o " " \o e.ResourceType \o ": " \o Quote(name))

Panicked == [panic |-> TRUE, output |-> <<>>, err |-> NilErr]
Returned(output, err) == [panic |-> FALSE, output |-> output, err |-> err]

OutputCreate(e) ==
    LET n == getName(e.Value)
    IN IF n.panic THEN Panicked
       ELSE Returned(<<Headline("creating", e, n.name)>>, NilErr)

\* the Delete line, the name read from Value
OutputDeleteFromValue(e) ==
    LET n == getName(e.Value)
    IN IF n.panic THEN Panicked
       ELSE Returned(<<Headline("deleting", e, n.name)>>, NilErr)

OutputDelete(e) ==
    LET n == getName(e.OldValue)
    IN IF n.panic THEN Panicked
       ELSE Returned(<<Headline("deleting", e, n.name)>>, NilErr)

\* the Update text, the diff taken against an empty remote text
OutputUpdateNoRemote(e) ==
    LET local == MarshalIndent(e.Value)
        diff == UnifiedText(ToUnified(<<>>, ComputeEdits(<<>>, local)))
        n == getName(e.Value)
    IN IF n.panic THEN Panicked
       ELSE Returned(<<Headline("updating", e, n.name)>> \o diff, NilErr)

\* the Update text, the diff taken from local to remote
OutputUpdateSwapped(e) ==
    LET remote == MarshalIndent(e.OldValue)
        local == MarshalIndent(e.Value)
        diff == UnifiedText(ToUnified(local, ComputeEdits(local, remote)))
        n == getName(e.Value)
    IN IF n.panic THEN Panicked
       ELSE Returned(<<Headline("updating", e, n.name)>> \o diff, NilErr)

\* json.MarshalIndent fails on no value of the model: the two error returns
\* of the Update case are never taken
OutputUpdate(e) ==
    LET remote == MarshalIndent(e.OldValue)
        local == MarshalIndent(e.Value)
        edits == ComputeEdits(remote, local)
        diff == UnifiedText(ToUnified(remote, edits))
        n == getName(e.Value)
    IN IF n.panic THEN Panicked
       ELSE Returned(<<Headline("updating", e, n.name)>> \o diff, NilErr)

OutputOf(e) ==
    CASE e.Option = CreateOption -> OutputCreate(e)
      [] e.Option = DeleteOption -> OutputDelete(e)
      [] e.Option = UpdateOption -> OutputUpdate(e)
      [] OTHER -> Returned(<<>>, NilErr)

(***************************************************************************)
(* Event.Apply: [panic, calls, err].  A call is what the sub-client was    *)
(* asked: the client, the operation, the value (Create, Update) or the     *)
(* name (Delete) it was given, and the error it returned.                  *)
(***************************************************************************)
Call(client, op, value, name, err) ==
    [client |-> client, op |-> op, value |-> value, name |-> name, err |-> err]

ApplyPanicked == [panic |-> TRUE, calls |-> <<>>, err |-> NilErr]
Applied(cs, err) == [panic |-> FALSE, calls |-> cs, err |-> err]

\* remoteErr is what the remote call, if one is made, returns
applyService(option, value, remoteErr) ==
    CASE option = CreateOption ->
            IF value.type # "Service" THEN ApplyPanicked
            ELSE Applied(<<Call("Service", "Create", value, "", remoteErr)>>,
                         Wrap(remoteErr, "failed to apply service"))
      [] option = DeleteOption ->
            LET n == getName(value)
            IN IF n.panic THEN ApplyPanicked
               ELSE Applied(<<Call("Service", "Delete", Nil, n.name, remoteErr)>>,
                            Wrap(remoteErr, "failed to apply service"))
      [] option = UpdateOption ->
            IF value.type # "Service" THEN ApplyPanicked
            ELSE Applied(<<Call("Service", "Update", value, "", remoteErr)>>, remoteErr)
      [] OTHER -> Applied(<<>>, Wrap(NilErr, "failed to apply service"))

applyRoute(option, value, remoteErr) ==
    CASE option = CreateOption ->
            IF value.type # "Route" THEN ApplyPanicked
            ELSE Applied(<<Call("Route", "Create", value, "", remoteErr)>>,
                         Wrap(remoteErr, "failed to apply route"))
      [] option = DeleteOption ->
            LET n == getName(value)
            IN IF n.panic THEN ApplyPanicked
               ELSE Applied(<<Call("Route", "Delete", Nil, n.name, remoteErr)>>,
                            Wrap(remoteErr, "failed to apply route"))
      [] option = UpdateOption ->
            IF value.type # "Route" THEN ApplyPanicked
            ELSE Applied(<<Call("Route", "Update", value, "", remoteErr)>>,
                         Wrap(remoteErr, "failed to apply route"))
      [] OTHER -> Applied(<<>>, Wrap(NilErr, "failed to apply route"))

\* the route case handed to the service handler
ApplyOfRouteAsService(e, remoteErr) ==
    CASE e.ResourceType = ServiceResourceType -> applyService(e.Option, e.Value, remoteErr)
      [] e.ResourceType = RouteResourceType -> applyService(e.Option, e.Value, remoteErr)
      [] OTHER -> Applied(<<>>, NilErr)

\* an unknown ResourceType reported as an error
ApplyOfUnknownFails(e, remoteErr) ==
    CASE e.ResourceType = ServiceResourceType -> applyService(e.Option, e.Value, remoteErr)
      [] e.ResourceType = RouteResourceType -> applyRoute(e.Option, e.Value, remoteErr)
      [] OTHER -> Applied(<<>>, [kind |-> "client", text |-> "unknown resource type"])

ApplyOf(e, remoteErr) ==
    CASE e.ResourceType = ServiceResourceType -> applyService(e.Option, e.Value, remoteErr)
      [] e.ResourceType = RouteResourceType -> applyRoute(e.Option, e.Value, remoteErr)
      [] OTHER -> Applied(<<>>, NilErr)

(***************************************************************************)
(* The state: one Event, the calls the cluster's sub-clients have          *)
(* received, and what the Output and Apply invocations on the Event        *)
(* returned.  A record carries the values its option requires: new_value   *)
(* for Create, old_value for Delete, both for Update; the other value may  *)
(* be absent or anything, and so may the values of an unknown option.      *)
(***************************************************************************)
Events == [ResourceType : ResourceTypes, Option : Options,
           OldValue : Values, Value : Values]

\* what outRet and applyRet hold before the first invocation
None == [kind |-> "none"]

Present(e) ==
    /\ e.Option \in {CreateOption, UpdateOption} => e.Value # Nil
    /\ e.Option \in {DeleteOption, UpdateOption} => e.OldValue # Nil

Init ==
    /\ event \in {e \in Events : Present(e)}
    /\ calls = <<>>
    /\ applyCount = 0
    /\ outCount = 0
    /\ outRet = None
    /\ applyRet = None

\* e.Output()
Output ==
    /\ outCount < MaxOutput
    /\ outCount' = outCount + 1
    /\ outRet' = OutputOf(event)
    /\ UNCHANGED <<event, calls, applyCount, applyRet>>

\* an Apply that drops the value it has applied from the record
ApplyAndClear ==
    /\ applyCount < MaxApply
    /\ \E remoteErr \in RemoteResults :
          LET r == ApplyOf(event, remoteErr)
          IN /\ calls' = calls \o r.calls
             /\ applyRet' = [panic |-> r.panic, err |-> r.err]
    /\ applyCount' = applyCount + 1
    /\ event' = [event EXCEPT !.Value = Nil]
    /\ UNCHANGED <<outCount, outRet>>

\* e.Apply(cluster), the remote call returning remoteErr
Apply ==
    /\ applyCount < MaxApply
    /\ \E remoteErr \in RemoteResults :
          LET r == ApplyOf(event, remoteErr)
          IN /\ calls' = calls \o r.calls
             /\ applyRet' = [panic |-> r.panic, err |-> r.err]
    /\ applyCount' = applyCount + 1
    /\ UNCHANGED <<event, outCount, outRet>>

Next == Output \/ Apply

Spec == Init /\ [][Next]_vars

(***************************************************************************)
(* What the properties below speak of.                                     *)
(***************************************************************************)
KnownType(e) == e.ResourceType \in {ServiceResourceType, RouteResourceType}
KnownOption(e) == e.Option \in {CreateOption, DeleteOption, UpdateOption}

\* the sub-client, and the concrete type, of a known ResourceType
ClientOf(e) == IF e.ResourceType = ServiceResourceType THEN "Service" ELSE "Route"

\* the values a record carries are of its ResourceType's concrete type
WellTyped(e) ==
    /\ e.Value # Nil => e.Value.type = ClientOf(e)
    /\ e.OldValue # Nil => e.OldValue.type = ClientOf(e)

OptionName(e) ==
    CASE e.Option = CreateOption -> "Create"
      [] e.Option = DeleteOption -> "Delete"
      [] e.Option = UpdateOption -> "Update"

Context(e) ==
    IF e.ResourceType = ServiceResourceType
    THEN "failed to apply service" ELSE "failed to apply route"

\* the lines of a text that the diff marks with k
Marked(text, k) == {j \in 1..Len(text) : text[j].k = k}

\* the places where two serializations of the same length differ
Changed(a, b) == {i \in 1..Len(a) : a[i] # b[i]}

\* the serializations of the record's values differ in exactly one line
OneLineChanged(e) ==
    /\ e.OldValue # Nil /\ e.Value # Nil
    /\ Len(MarshalIndent(e.OldValue)) = Len(MarshalIndent(e.Value))
    /\ Cardinality(Changed(MarshalIndent(e.OldValue), MarshalIndent(e.Value))) = 1

\* The edits ComputeEdits makes for an Update record of the model never
\* start behind the last line of the remote text: ToUnified takes them as
\* they are.
EditsWithinContent ==
    event.Option = UpdateOption =>
        ~Partial(MarshalIndent(event.OldValue),
                 ComputeEdits(MarshalIndent(event.OldValue), MarshalIndent(event.Value)))

\* C1: every Apply of a Delete record of a known ResourceType calls Delete
\* on the matching sub-client with the name of OldValue.
C1_DeleteByOldValueName ==
    (event.Option = DeleteOption /\ KnownType(event) /\ applyCount > 0) =>
        /\ Len(calls) = applyCount
        /\ \A i \in 1..Len(calls) :
              /\ calls[i].client = ClientOf(event)
              /\ calls[i].op = "Delete"
              /\ calls[i].name = event.OldValue.Name

\* C2: when the remote call of an Apply on a record of a known ResourceType
\* and option returns an error, Apply returns that error wrapped with the
\* message of the ResourceType, the error itself as the cause.
C2_RemoteErrorWrapped ==
    (/\ KnownType(event) /\ KnownOption(event)
     /\ applyRet # None /\ ~applyRet.panic
     /\ calls # <<>> /\ calls[Len(calls)].err # NilErr) =>
        applyRet.err = [kind |-> "wrapped", msg |-> Context(event),
                        cause |-> calls[Len(calls)].err]

\* C3: every Apply of a Create or Update record of a known ResourceType
\* whose Value is of that type makes one call, the record's operation on the
\* matching sub-client with Value, and no other call.
C3_CreateUpdateDispatch ==
    (/\ KnownType(event) /\ event.Option \in {CreateOption, UpdateOption}
     /\ event.Value.type = ClientOf(event)) =>
        /\ Len(calls) = applyCount
        /\ \A i \in 1..Len(calls) :
              /\ calls[i].client = ClientOf(event)
              /\ calls[i].op = OptionName(event)
              /\ calls[i].value = event.Value

C3_Witness ==
    /\ event.ResourceType = RouteResourceType /\ event.Option = UpdateOption
    /\ event.Value.type = "Route" /\ event.OldValue.type = "Service"
    /\ applyCount = 2 /\ Len(calls) = 2

\* C4: Apply of a record of an unknown ResourceType, whatever its option and
\* values, returns no error and calls no sub-client.
C4_UnknownTypeNoOp ==
    ~KnownType(event) =>
        /\ calls = <<>>
        /\ applyRet # None => applyRet = [panic |-> FALSE, err |-> NilErr]

C4_Witness ==
    /\ ~KnownType(event) /\ event.Option = DeleteOption /\ event.Value = Nil
    /\ applyCount > 0 /\ applyRet # None

\* C5: every Apply of a record of a known ResourceType and option (its values
\* of the ResourceType's type) makes exactly one remote call, failed or not:
\* after n invocations n calls have been made.
C5_OneCallPerApply ==
    (KnownType(event) /\ KnownOption(event) /\ WellTyped(event)) =>
        Len(calls) = applyCount

\* C6: Output of a Create record returns, without error, the one line
\* creating <kind>: "<Name of Value>"; of a Delete record the one line
\* deleting <kind>: "<Name of OldValue>"; whatever the other value is.
C6_CreateDeleteLine ==
    outRet # None =>
        /\ event.Option = CreateOption =>
              outRet = [panic |-> FALSE, err |-> NilErr,
                        output |-> <<[k |-> "", s |-> "creating " \o event.ResourceType
                                        \o ": \"" \o event.Value.Name \o "\""]>>]
        /\ event.Option = DeleteOption =>
              outRet = [panic |-> FALSE, err |-> NilErr,
                        output |-> <<[k |-> "", s |-> "deleting " \o event.ResourceType
                                        \o ": \"" \o event.OldValue.Name \o "\""]>>]

C6_Witness ==
    /\ event.Option = DeleteOption /\ outRet # None
    /\ event.Value # Nil /\ event.Value.Name # event.OldValue.Name

\* C7: Output of an Update record whose OldValue and Value are equal returns,
\* without error, a text whose first line is updating <kind>: "<Name of
\* Value>" and in which no line is marked removed or added.
C7_EqualValuesEmptyDiff ==
    (event.Option = UpdateOption /\ event.OldValue = event.Value /\ outRet # None) =>
        /\ ~outRet.panic /\ outRet.err = NilErr
        /\ Len(outRet.output) >= 1
        /\ outRet.output[1] = [k |-> "", s |-> "updating " \o event.ResourceType
                                  \o ": \"" \o event.Value.Name \o "\""]
        /\ Marked(outRet.output, "-") = {}
        /\ Marked(outRet.output, "+") = {}

C7_Witness ==
    /\ event.Option = UpdateOption /\ event.OldValue = event.Value /\ outRet # None
    /\ event.Value.type = "Service" /\ Len(event.Value.Hosts) = 2

\* C8: Output of an Update record whose serialized OldValue and Value differ
\* in exactly one line shows exactly one removed line, that line of OldValue,
\* and exactly one added line, that line of Value.
C8_OneLineChangedOneHunkPair ==
    (event.Option = UpdateOption /\ OneLineChanged(event) /\ outRet # None) =>
        LET old == MarshalIndent(event.OldValue)
            new == MarshalIndent(event.Value)
            removed == Marked(outRet.output, "-")
            added == Marked(outRet.output, "+")
        IN /\ ~outRet.panic
           /\ Cardinality(removed) = 1 /\ Cardinality(added) = 1
           /\ \A i \in Changed(old, new) :
                 /\ \A j \in removed : outRet.output[j].s = old[i]
                 /\ \A j \in added : outRet.output[j].s = new[i]

C8_Witness ==
    /\ event.Option = UpdateOption /\ OneLineChanged(event) /\ outRet # None
    /\ event.ResourceType = RouteResourceType
    /\ event.OldValue.type = "Route" /\ event.Value.type = "Route"
    /\ event.OldValue.UpstreamID = "1" /\ event.Value.UpstreamID = "2"

\* C9: no step changes the record; an Output step makes no remote call and
\* leaves what Apply returned alone; every Output on the record returns what
\* the Output before it returned, Apply steps in between or not.
C9_OutputPure ==
    [][/\ event' = event
       /\ outCount' # outCount =>
             calls' = calls /\ applyCount' = applyCount /\ applyRet' = applyRet
       /\ (outCount' # outCount /\ outCount > 0) => outRet' = outRet
       /\ applyCount' # applyCount => outRet' = outRet]_vars

C9_Witness ==
    /\ outCount = 2 /\ applyCount = 2 /\ calls # <<>>
    /\ event.Option = UpdateOption /\ event.OldValue # event.Value

\* C10: for a record whose option is none of Create, Delete, Update, Output
\* returns the empty text and no error, and Apply makes no call and returns
\* no error, the ResourceType known or not.
C10_UnknownOptionAccepted ==
    ~KnownOption(event) =>
        /\ outRet # None => outRet = [panic |-> FALSE, output |-> <<>>, err |-> NilErr]
        /\ calls = <<>>
        /\ applyRet # None => applyRet = [panic |-> FALSE, err |-> NilErr]

C10_Witness ==
    /\ ~KnownOption(event) /\ KnownType(event)
    /\ event.Value # Nil /\ outCount > 0 /\ applyCount > 0
====
